---- MODULE Spec2Model ----
(***************************************************************************)
(* A model of src/scraper.py: the paginated fetcher make_api_request, the  *)
(* registry build of the __main__ block (Path A: direct file listing,      *)
(* Path B: module traversal) and the download loop.                        *)
(*                                                                         *)
(* The specifications share the definitions of the functions:             *)
(*   SpecFetch     one call of make_api_request, one loop iteration per    *)
(*                 step, the server's answer to each request chosen freely *)
(*                 (SpecFetchFair: the same, the call taking its steps);   *)
(*   Spec          the __main__ block, where every call of                 *)
(*                 make_api_request is evaluated by running the same loop  *)
(*                 body over a chain of server answers;                    *)
(*   SpecE2E       the __main__ block on one course, no request failing;   *)
(*   SpecDownload  one call of download_file, statement by statement;      *)
(*   SpecSanitize  sanitize_filename on a name and on its result.          *)
(***************************************************************************)
EXTENDS Integers, Sequences, FiniteSets, TLC

VARIABLES
    \* ---- one call of make_api_request (SpecFetch) ----
    fpc,            \* "idle" | "loop" | "returned"
    url,            \* the url argument
    params,         \* the params argument / local (NoParams after the first get)
    next_url,       \* local next_url (NoUrl models None)
    all_results,    \* local all_results
    result,         \* the returned value, once fpc = "returned"
    requests,       \* history: <<url, params>> of every session.get issued
    responses,      \* history: the server's answer to every request
    \* ---- the __main__ block (Spec) ----
    pc,             \* position in the __main__ block
    course_files,   \* line 101
    files_to_download, \* line 97: the registry, a dict in insertion order
    modules,        \* line 117
    module_items,   \* lines 123 and 126
    file_details_list, \* line 133
    fi,             \* position of the loop of line 105
    mi,             \* position of the loop of line 121
    ii,             \* position of the loop of line 128
    di,             \* position of the loop of line 163
    download_count, \* line 155
    skipped_count,  \* line 156
    error_count,    \* line 157
    items_result,   \* the value of the call of line 126 for the current module
    course,         \* the environment: what the server holds, fixed during a run
    discovered,     \* history: the records with a url seen at lines 106 and 137
    downloads,      \* history: what the loop of line 163 did with each entry
    \* ---- one call of download_file (SpecDownload) ----
    df_pc,          \* position in download_file
    df_body,        \* the environment: the chunks of the response body
    df_read,        \* chunks taken from r.iter_content so far
    df_opened,      \* whether open(full_path, 'wb') was reached
    df_written,     \* the chunks written to the file, in order
    df_exc,         \* the exception in flight, "none" if there is none
    df_ret,         \* the returned value, once df_pc = "returned"
    \* ---- calls of sanitize_filename (SpecSanitize) ----
    sf_pc,          \* "idle" | "call" | "called" | "recalled"
    sf_filename,    \* the argument
    sf_sanitized,   \* the value returned for the argument
    sf_again        \* the value returned for sf_sanitized

fetchVars == <<fpc, url, params, next_url, all_results, result, requests, responses>>
mainVars  == <<pc, course_files, files_to_download, modules, module_items,
               file_details_list, fi, mi, ii, di, download_count, skipped_count,
               error_count, items_result, course, discovered, downloads>>
downloadVars == <<df_pc, df_body, df_read, df_opened, df_written, df_exc, df_ret>>
sanitizeVars == <<sf_pc, sf_filename, sf_sanitized, sf_again>>
helperVars == <<downloadVars, sanitizeVars>>
vars      == <<fetchVars, mainVars, helperVars>>

(***************************************************************************)
(* Bounds of the model.                                                    *)
(***************************************************************************)
MaxRequests == 4    \* requests one call of make_api_request may issue (SpecFetch)
MaxPageLen  == 2    \* records on one page (SpecFetch)

(***************************************************************************)
(* Python and JSON values.                                                 *)
(***************************************************************************)
\* Python's None as a return value of make_api_request.
None == [tag |-> "None"]

\* A Python list as a return value of make_api_request.
PyList(s) == [tag |-> "list", items |-> s]

\* A variable of the __main__ block that is not bound yet.
Unset == [tag |-> "unset"]

\* A course without files and modules; faults tells whether requests to the
\* server may fail.
NoCourse == [files |-> <<>>, modules |-> <<>>, faults |-> TRUE]

\* None as the value of a url or of params; the empty string is as falsy.
NoUrl == ""
NoParams == ""

\* Truthiness of a string (a url): None and "" are falsy.
TruthyStr(s) == s # ""

\* Truthiness of a value returned by make_api_request: None and [] are falsy.
Truthy(v) == v.tag = "list" /\ v.items # <<>>

\* Display names, as sequences of characters.
NamePdf  == <<"a", ".", "p", "d", "f">>
NameExe  == <<"b", ".", "e", "x", "e">>
NameDocx == <<"c", ".", "d", "o", "c", "x">>
NameDir  == <<"d", "i", "r">>

\* A JSON object of the file listing / file detail endpoints; a record
\* without a download url (a folder) has url = NoUrl.
FileDict(i, n, u) == [kind |-> "dict", id |-> i, display_name |-> n, url |-> u]

\* JSON values that are neither a list nor an object.
Scalars == {[kind |-> "str"], [kind |-> "num"], [kind |-> "bool"], [kind |-> "null"]}

\* isinstance(v, dict)
IsDict(v) == v.kind = "dict"

\* A response body: a JSON list, another JSON value, or text that is no JSON.
ListBody(s)  == [json |-> "list", items |-> s]
ValueBody(v) == [json |-> "value", items |-> <<v>>]
InvalidBody  == [json |-> "invalid", items |-> <<>>]

\* A link of the Link header.
Link(rel, u) == [rel |-> rel, url |-> u]

\* The server's answer to one session.get: a connection error (no response),
\* a response with an error status, or a successful response.
ConnError == [status |-> "conn_error", body |-> InvalidBody, links |-> <<>>]
HttpError == [status |-> "http_error", body |-> InvalidBody, links |-> <<>>]
Ok(body, links) == [status |-> "ok", body |-> body, links |-> links]

\* All sequences over S of length at most n.
SeqsUpTo(S, n) == UNION {[1..k -> S] : k \in 0..n}

(***************************************************************************)
(* make_api_request, lines 20-63.                                          *)
(***************************************************************************)
\* A variant of NextLink that follows the first link, whatever its relation.
NextLinkAny(links) == IF links = <<>> THEN NoUrl ELSE Head(links).url

\* Lines 49-55: the url of the first link marked rel="next", else None.
RECURSIVE NextLink(_)
NextLink(links) ==
    IF links = <<>> THEN NoUrl
    ELSE IF Head(links).rel = "next" THEN Head(links).url
    ELSE NextLink(Tail(links))

\* A variant of Extend that puts the new page in front.
ExtendInFront(acc, data) == data \o acc

\* Line 33: all_results.extend(data)
Extend(acc, data) == acc \o data

\* A variant of OnRequestException that returns what was accumulated.
OnRequestExceptionPartial(st) ==
    [st EXCEPT !.returned = TRUE, !.result = PyList(st.all_results)]

\* A variant of OnRequestException that returns an empty list.
OnRequestExceptionEmpty(st) ==
    [st EXCEPT !.returned = TRUE, !.result = PyList(<<>>)]

\* Lines 57-61: a RequestException ends the call with None.
OnRequestException(st) == [st EXCEPT !.returned = TRUE, !.result = None]

\* A variant of OnJSONDecodeError that loses the accumulated records.
OnJSONDecodeErrorDrop(st) == [st EXCEPT !.next_url = NoUrl, !.all_results = <<>>]

\* Lines 42-46: a body that is no JSON ends the pagination.
OnJSONDecodeError(st) == [st EXCEPT !.next_url = NoUrl]

\* A variant of OnNonList that appends whatever value it is given.
OnNonListAppendAny(st, data) ==
    [st EXCEPT !.all_results = Append(@, data), !.next_url = NoUrl]

\* Lines 34-39: a JSON value that is no list; only an object is appended.
OnNonList(st, data) ==
    [st EXCEPT !.all_results = IF IsDict(data) THEN Append(@, data) ELSE @,
               !.next_url = NoUrl]

\* Lines 32-33 and 49-55: a JSON list is accumulated and the next link followed.
OnList(st, resp) ==
    [st EXCEPT !.all_results = Extend(@, resp.body.items),
               !.next_url = NextLink(resp.links)]

\* A variant of ClearParams that keeps the parameters.
KeepParams(st) == st

\* Line 27: params = None, reached when session.get returned a response.
ClearParams(st) == [st EXCEPT !.params = NoParams]

\* Lines 25-61: one iteration of the while loop, given the server's answer.
\* st = [next_url, params, all_results, returned, result].
LoopBody(st, resp) ==
    IF resp.status = "conn_error" THEN OnRequestException(st)
    ELSE IF resp.status = "http_error" THEN OnRequestException(ClearParams(st))
    ELSE IF resp.body.json = "invalid" THEN OnJSONDecodeError(ClearParams(st))
    ELSE IF resp.body.json = "list" THEN OnList(ClearParams(st), resp)
    ELSE OnNonList(ClearParams(st), resp.body.items[1])

\* Lines 21-22: the locals at entry.
Entry(u, p) ==
    [next_url |-> u, params |-> p, all_results |-> <<>>,
     returned |-> FALSE, result |-> None]

\* Lines 24 and 63: the loop ends when next_url is falsy, returning all_results.
LoopExit(st) == [st EXCEPT !.returned = TRUE, !.result = PyList(st.all_results)]

\* Lines 20-63 over a chain of server answers, one per request issued.  The
\* value is [done, result, used]: done is FALSE when the chain ends before the
\* call does; used is the number of answers consumed.
RECURSIVE RunLoop(_, _, _)
RunLoop(st, chain, n) ==
    IF st.returned THEN [done |-> TRUE, result |-> st.result, used |-> n]
    ELSE IF ~TruthyStr(st.next_url) THEN RunLoop(LoopExit(st), chain, n)
    ELSE IF chain = <<>> THEN [done |-> FALSE, result |-> None, used |-> n]
    ELSE RunLoop(LoopBody(st, Head(chain)), Tail(chain), n + 1)

make_api_request(u, p, chain) == RunLoop(Entry(u, p), chain, 0)

\* The chains that answer a call completely: every answer is requested and
\* the call returns.
Complete(u, p, chain) ==
    LET r == make_api_request(u, p, chain) IN r.done /\ r.used = Len(chain)

(***************************************************************************)
(* SpecFetch: one call of make_api_request, step by step.                  *)
(***************************************************************************)
StartUrl == "u0"
CallerParams == {NoParams, "per_page=100"}

\* The server holds the records 1, 2, 3, ... of the collection; a list page
\* carries the next n of them, after the `served` ones of the earlier pages.
PageRecord(i) == [kind |-> "dict", id |-> i]
PageOf(served, n) == [j \in 1..n |-> PageRecord(served + j)]

\* The Link headers the server may send.
LinkHeaders ==
    {<<>>, <<Link("prev", "u1")>>, <<Link("next", "u1")>>,
     <<Link("prev", "u1"), Link("next", "u2")>>}

\* The bodies the server may send once `served` records were served: a list
\* page, a JSON object or another JSON value, or text that is no JSON.
Bodies(served) ==
    {ListBody(PageOf(served, n)) : n \in 0..MaxPageLen}
    \cup {ValueBody(v) : v \in Scalars \cup {PageRecord(0)}}
    \cup {InvalidBody}

\* Every answer the server may give to a request.
Answers(served) ==
    {ConnError, HttpError}
    \cup {Ok(b, l) : b \in Bodies(served), l \in LinkHeaders}

\* The number of records on the list pages among the answers rs.
RECURSIVE Served(_)
Served(rs) ==
    IF rs = <<>> THEN 0
    ELSE (IF Head(rs).body.json = "list" THEN Len(Head(rs).body.items) ELSE 0)
         + Served(Tail(rs))

\* The locals of the running call, as LoopBody takes them.
Locals ==
    [next_url |-> next_url, params |-> params, all_results |-> all_results,
     returned |-> fpc = "returned", result |-> result]

SetLocals(st) ==
    /\ next_url' = st.next_url
    /\ params' = st.params
    /\ all_results' = st.all_results
    /\ result' = st.result
    /\ fpc' = IF st.returned THEN "returned" ELSE "loop"

\* Lines 24-61: one iteration, the server answering the request.
Request ==
    /\ fpc = "loop"
    /\ TruthyStr(next_url)
    /\ Len(requests) < MaxRequests
    /\ \E resp \in Answers(Served(responses)) :
        /\ requests' = Append(requests, <<next_url, params>>)
        /\ responses' = Append(responses, resp)
        /\ SetLocals(LoopBody(Locals, resp))
    /\ UNCHANGED <<url, mainVars, helperVars>>

\* Lines 24 and 63: the loop condition fails and all_results is returned.
Return ==
    /\ fpc = "loop"
    /\ ~TruthyStr(next_url)
    /\ SetLocals(LoopExit(Locals))
    /\ UNCHANGED <<url, requests, responses, mainVars, helperVars>>

MainIdle ==
    /\ pc = "idle"
    /\ course_files = Unset
    /\ files_to_download = <<>>
    /\ modules = Unset
    /\ module_items = <<>>
    /\ file_details_list = Unset
    /\ fi = 0 /\ mi = 0 /\ ii = 0 /\ di = 0
    /\ download_count = 0 /\ skipped_count = 0 /\ error_count = 0
    /\ items_result = Unset
    /\ course = NoCourse
    /\ discovered = <<>>
    /\ downloads = <<>>

\* download_file is not running.
DownloadIdle ==
    /\ df_pc = "idle"
    /\ df_body = <<>>
    /\ df_read = 0
    /\ df_opened = FALSE
    /\ df_written = <<>>
    /\ df_exc = "none"
    /\ df_ret = FALSE

\* sanitize_filename is not running.
SanitizeIdle ==
    /\ sf_pc = "idle"
    /\ sf_filename = <<>>
    /\ sf_sanitized = <<>>
    /\ sf_again = <<>>

InitFetch ==
    /\ fpc = "loop"
    /\ url = StartUrl
    /\ params \in CallerParams
    /\ next_url = url
    /\ all_results = <<>>
    /\ result = None
    /\ requests = <<>>
    /\ responses = <<>>
    /\ MainIdle
    /\ DownloadIdle
    /\ SanitizeIdle

NextFetch == Request \/ Return

SpecFetch == InitFetch /\ [][NextFetch]_vars

(***************************************************************************)
(* Text: os.path.splitext, str.lower and sanitize_filename, lines 14-18.   *)
(***************************************************************************)
UpperCase ==
    <<"A", "B", "C", "D", "E", "F", "G", "H", "I", "J", "K", "L", "M",
      "N", "O", "P", "Q", "R", "S", "T", "U", "V", "W", "X", "Y", "Z">>
LowerCase ==
    <<"a", "b", "c", "d", "e", "f", "g", "h", "i", "j", "k", "l", "m",
      "n", "o", "p", "q", "r", "s", "t", "u", "v", "w", "x", "y", "z">>

\* str.lower, line 167.
LowerChar(c) ==
    IF \E k \in 1..Len(UpperCase) : UpperCase[k] = c
    THEN LowerCase[CHOOSE k \in 1..Len(UpperCase) : UpperCase[k] = c]
    ELSE c
Lower(s) == [k \in 1..Len(s) |-> LowerChar(s[k])]

\* str.rfind, counted from 1: the last position of c in s, 0 when there is none.
RFind(s, c) ==
    IF \E k \in 1..Len(s) : s[k] = c
    THEN CHOOSE k \in 1..Len(s) : s[k] = c /\ \A j \in (k + 1)..Len(s) : s[j] # c
    ELSE 0

\* os.path.splitext(p)[1], line 167: the text from the last dot on, when that
\* dot follows the last separator and a character that is no dot.
SplitExt(s) ==
    LET sep == RFind(s, "/")
        dot == RFind(s, ".")
    IN  IF dot > sep /\ \E k \in (sep + 1)..(dot - 1) : s[k] # "."
        THEN SubSeq(s, dot, Len(s))
        ELSE <<>>

\* Line 10.
ALLOWED_EXTENSIONS ==
    {<<".", "p", "p", "t", "x">>, <<".", "p", "d", "f">>, <<".", "z", "i", "p">>,
     <<".", "d", "o", "c", "x">>, <<".", "p", "y">>,
     <<".", "i", "p", "y", "n", "b">>, <<".", "j", "a", "v", "a">>,
     <<".", "t", "x", "t">>, <<".", "c", "s", "v">>}

\* A variant of Allowed that lets every extension pass.
AllowedAny(filename) == TRUE

\* Lines 167-168: file_ext in ALLOWED_EXTENSIONS.
Allowed(filename) == Lower(SplitExt(filename)) \in ALLOWED_EXTENSIONS

\* Line 16: the characters the pattern [\\/*?:"<>|] removes.
Forbidden == {"\\", "/", "*", "?", ":", "\"", "<", ">", "|"}
IsKept(c) == c \notin Forbidden

\* A variant of RemoveForbidden that removes the first match only.
RECURSIVE RemoveFirstForbidden(_)
RemoveFirstForbidden(s) ==
    IF s = <<>> THEN <<>>
    ELSE IF IsKept(Head(s)) THEN <<Head(s)>> \o RemoveFirstForbidden(Tail(s))
    ELSE Tail(s)

RemoveForbidden(s) == SelectSeq(s, IsKept)

\* A variant of ReplaceSpaces that replaces the first space only.
ReplaceFirstSpace(s) ==
    [k \in 1..Len(s) |->
        IF s[k] = " " /\ (\A j \in 1..(k - 1) : s[j] # " ") THEN "_" ELSE s[k]]

\* Line 17: replace(" ", "_").
ReplaceSpaces(s) == [k \in 1..Len(s) |-> IF s[k] = " " THEN "_" ELSE s[k]]

\* Lines 14-18.
sanitize_filename(filename) == ReplaceSpaces(RemoveForbidden(filename))

(***************************************************************************)
(* download_file, lines 66-85, by what happens during the download.        *)
(***************************************************************************)
DownloadOutcomes == {"ok", "request_error", "os_error", "other_error"}

download_file(outcome) == outcome = "ok"

(***************************************************************************)
(* The registry files_to_download: a dict, kept in insertion order.        *)
(***************************************************************************)
DictKeys(d) == {d[k].key : k \in 1..Len(d)}
DictHas(d, key) == key \in DictKeys(d)
DictGet(d, key) == d[CHOOSE k \in 1..Len(d) : d[k].key = key].val

\* d[key] = val: a present key keeps its place and takes the new value.
DictSet(d, key, val) ==
    IF DictHas(d, key)
    THEN [k \in 1..Len(d) |-> IF d[k].key = key THEN [key |-> key, val |-> val] ELSE d[k]]
    ELSE Append(d, [key |-> key, val |-> val])

\* Lines 107-111 and 139-143: the record stored for file_info.
FileEntry(file_info) ==
    [filename |-> file_info.display_name, url |-> file_info.url, id |-> file_info.id]

\* A variant of HasUrl that takes every record.
HasUrlAlways(file_info) == TRUE

\* Line 106: file_info.get('url')
HasUrl(file_info) == TruthyStr(file_info.url)

\* Lines 106-113: Path A stores every record with a url under its id.
InsertA(reg, file_info) ==
    IF HasUrl(file_info)
    THEN DictSet(reg, file_info.id, FileEntry(file_info))
    ELSE reg

\* Line 137: the file detail is a dict with a url.
Usable(file_info) == IsDict(file_info) /\ HasUrl(file_info)

\* A variant of IsNew that takes every record for new.
IsNewAlways(reg, file_info) == TRUE

\* Line 138: file_info['id'] not in files_to_download
IsNew(reg, file_info) == ~DictHas(reg, file_info.id)

\* Lines 137-148: Path B stores a usable record unless its id is present.
InsertB(reg, file_info) ==
    IF Usable(file_info) /\ IsNew(reg, file_info)
    THEN DictSet(reg, file_info.id, FileEntry(file_info))
    ELSE reg

(***************************************************************************)
(* What the server holds (Spec): the course.                               *)
(***************************************************************************)
MaxCourse == 3    \* records of the course: listed files, modules and module items

\* The file records a course is made of: file 1, a file 2 of the same name,
\* file 1 in a second state (renamed, with a fresh url) and a folder.
FileRecs ==
    {FileDict(1, NamePdf, "f1"), FileDict(2, NamePdf, "f2"),
     FileDict(1, NameExe, "f3"), FileDict(2, NameDir, NoUrl)}

\* The file detail endpoint: what each detail url answers with.
DetailUrls == <<"d1", "d2", "d3", "d4", "d5", "d6", "d7">>
DetailCatalog ==
    <<FileDict(1, NamePdf, "f1"), FileDict(2, NamePdf, "f2"),
      FileDict(1, NameExe, "f3"), FileDict(2, NameDir, NoUrl), [kind |-> "str"],
      FileDict(2, NameExe, "f2"), FileDict(3, NameDocx, "f3")>>
DetailOf(u) == DetailCatalog[CHOOSE k \in 1..Len(DetailUrls) : DetailUrls[k] = u]

\* Module items: a file reference, a page, a file reference without a url.
ItemDict(t, u) == [kind |-> "dict", type |-> t, url |-> u]
ItemRecs ==
    {ItemDict("File", DetailUrls[k]) : k \in 1..Len(DetailUrls)}
    \cup {ItemDict("Page", "page"), ItemDict("File", NoUrl)}

\* A module of the course: its items, and whether the modules endpoint
\* inlines them in the module record.
ModulesOfSize(n) ==
    {[has_items |-> h, items |-> s] : h \in BOOLEAN, s \in SeqsUpTo(ItemRecs, n)}

\* The module sequences of at most n records, a module counting as one
\* record and each of its items as another.
RECURSIVE ModuleSeqs(_)
ModuleSeqs(n) ==
    {<<>>} \cup
    (IF n = 0 THEN {}
     ELSE UNION {{<<m>> \o rest : rest \in ModuleSeqs(n - 1 - Len(m.items))} :
                    m \in ModulesOfSize(n - 1)})

\* The courses of at most MaxCourse records.
Courses ==
    UNION {{[files |-> f, modules |-> ms, faults |-> TRUE] : ms \in ModuleSeqs(MaxCourse - Len(f))} :
              f \in SeqsUpTo(FileRecs, MaxCourse)}

\* A module record of the modules endpoint; has_items tells whether the items
\* field is present.  The k-th module of the course has id k.
ModuleDict(i, has, its) ==
    [kind |-> "dict", id |-> i, has_items |-> has, items |-> its]
ModuleList(ms) ==
    [k \in 1..Len(ms) |->
        ModuleDict(k, ms[k].has_items, IF ms[k].has_items THEN ms[k].items ELSE <<>>)]

NextHeader == <<Link("next", "next")>>

\* The ways the server may answer the requests of one call for the collection
\* l: in one page or in two, as a lone object, with a failure, with a body
\* that is no JSON or no collection.
ChainsFor(l) ==
    {<<Ok(ListBody(l), <<>>)>>, <<ConnError>>, <<HttpError>>,
     <<Ok(InvalidBody, NextHeader)>>}
    \cup {<<Ok(ValueBody(v), NextHeader)>> : v \in Scalars}
    \cup (IF Len(l) = 1 THEN {<<Ok(ValueBody(l[1]), <<>>)>>} ELSE {})
    \cup (IF Len(l) >= 1
          THEN {<<Ok(ListBody(SubSeq(l, 1, 1)), NextHeader),
                  Ok(ListBody(SubSeq(l, 2, Len(l))), <<>>)>>,
                <<Ok(ListBody(SubSeq(l, 1, 1)), NextHeader), HttpError>>,
                <<Ok(ListBody(l), NextHeader), Ok(InvalidBody, <<>>)>>}
          ELSE {})

\* The answers among them in which every request succeeds: the collection in
\* one page or in two, or as a lone object.
OkChainsFor(l) ==
    {<<Ok(ListBody(l), <<>>)>>}
    \cup (IF Len(l) = 1 THEN {<<Ok(ValueBody(l[1]), <<>>)>>} ELSE {})
    \cup (IF Len(l) >= 1
          THEN {<<Ok(ListBody(SubSeq(l, 1, 1)), NextHeader),
                  Ok(ListBody(SubSeq(l, 2, Len(l))), <<>>)>>}
          ELSE {})

\* The answers of the server of the course c.
Chains(c, l) == IF c.faults THEN ChainsFor(l) ELSE OkChainsFor(l)

\* The values make_api_request returns for the collection l of the course c.
ResultsFor(c, u, p, l) ==
    {make_api_request(u, p, ch).result : ch \in {ch \in Chains(c, l) : Complete(u, p, ch)}}

\* Line 101.
FilesResults(c) == ResultsFor(c, "files", "per_page=100", c.files)

\* Line 117.
ModulesResults(c) ==
    ResultsFor(c, "modules", "include=items&per_page=50", ModuleList(c.modules))

\* Line 126, for the module of id i.
ItemsResults(c, i) == ResultsFor(c, "items", "per_page=100", c.modules[i].items)

\* Line 133: the file detail endpoint answers one record, or a list of one.
DetailResults(c, u) == ResultsFor(c, u, NoParams, <<DetailOf(u)>>)

\* Line 170: what may happen to a download from the server of the course c.
Outcomes(c) == IF c.faults THEN DownloadOutcomes ELSE {"ok"}

(***************************************************************************)
(* The __main__ block, lines 88-182 (Spec).                                *)
(***************************************************************************)
\* Line 159: an empty registry skips the download loop.
AfterBuild(reg) == IF reg = <<>> THEN "done" ELSE "download"

\* A variant of AfterFiles that ends the run when the listing failed.
AfterFilesAbort(res, k, reg) ==
    IF res = None THEN "done"
    ELSE IF k > Len(res.items) THEN "fetch_modules" ELSE "path_a"

\* Lines 103-105: None skips Path A; the loop runs while records are left.
AfterFiles(res, k, reg) ==
    IF res = None \/ k > Len(res.items) THEN "fetch_modules" ELSE "path_a"

\* Lines 119-121: None skips Path B; the loop runs while modules are left.
AfterModules(res, k, reg) ==
    IF res = None \/ k > Len(res.items) THEN AfterBuild(reg) ELSE "module"

\* Line 126: a failed items fetch leaves the module without items.
OrEmpty(res) == IF Truthy(res) THEN res.items ELSE <<>>

\* Line 121: the position after module m: the next module, or the download
\* phase.
AfterModule(m, reg) ==
    IF m < Len(modules.items) THEN [pc |-> "module", mi |-> m + 1, ii |-> 0]
    ELSE [pc |-> AfterBuild(reg), mi |-> m + 1, ii |-> 0]

\* A variant of AfterItem that leaves a module after its first item.
AfterItemLeave(k, m, reg) == AfterModule(m, reg)

\* Lines 121 and 128: the position after item k of module m: the next item,
\* the next module, or the download phase.
AfterItem(k, m, reg) ==
    IF k < Len(module_items) THEN [pc |-> "item", mi |-> m, ii |-> k + 1]
    ELSE AfterModule(m, reg)

\* Line 101: the file listing is fetched.
FetchFiles ==
    /\ pc = "fetch_files"
    /\ \E res \in FilesResults(course) :
        /\ course_files' = res
        /\ fi' = 1
        /\ pc' = AfterFiles(res, 1, files_to_download)
    /\ UNCHANGED <<files_to_download, modules, module_items, file_details_list,
                   mi, ii, di, download_count, skipped_count, error_count,
                   items_result, course, discovered, downloads, fetchVars, helperVars>>

\* Lines 105-113: one record of the file listing.
PathA ==
    /\ pc = "path_a"
    /\ LET file_info == course_files.items[fi] IN
        /\ files_to_download' = InsertA(files_to_download, file_info)
        /\ discovered' = IF HasUrl(file_info)
                         THEN Append(discovered, [path |-> "A", rec |-> file_info])
                         ELSE discovered
    /\ fi' = fi + 1
    /\ pc' = AfterFiles(course_files, fi + 1, files_to_download')
    /\ UNCHANGED <<course_files, modules, module_items, file_details_list,
                   mi, ii, di, download_count, skipped_count, error_count,
                   items_result, course, downloads, fetchVars, helperVars>>

\* Line 117: the modules are fetched.
FetchModules ==
    /\ pc = "fetch_modules"
    /\ \E res \in ModulesResults(course) :
        /\ modules' = res
        /\ mi' = 1
        /\ pc' = AfterModules(res, 1, files_to_download)
    /\ UNCHANGED <<course_files, files_to_download, module_items,
                   file_details_list, fi, ii, di, download_count, skipped_count,
                   error_count, items_result, course, discovered, downloads, fetchVars, helperVars>>

\* Lines 122-126: the items of one module, inlined or fetched.
Module ==
    /\ pc = "module"
    /\ LET module == modules.items[mi]
           inlined == IF module.has_items THEN module.items ELSE <<>>
       IN  /\ \/ /\ inlined # <<>>
                 /\ items_result' = Unset
                 /\ module_items' = inlined
              \/ /\ inlined = <<>>
                 /\ \E res \in ItemsResults(course, module.id) :
                     /\ items_result' = res
                     /\ module_items' = OrEmpty(res)
           /\ LET next == IF module_items' = <<>>
                          THEN AfterModule(mi, files_to_download)
                          ELSE [pc |-> "item", mi |-> mi, ii |-> 1]
              IN  pc' = next.pc /\ mi' = next.mi /\ ii' = next.ii
    /\ UNCHANGED <<course_files, files_to_download, modules, file_details_list,
                   fi, di, download_count, skipped_count, error_count,
                   discovered, downloads, course, fetchVars, helperVars>>

\* Lines 128-133: one item; the detail of a file item is fetched.
Item ==
    /\ pc = "item"
    /\ LET item == module_items[ii] IN
        \/ /\ item.type = "File" /\ TruthyStr(item.url)
           /\ \E res \in DetailResults(course, item.url) : file_details_list' = res
           /\ pc' = "detail"
           /\ UNCHANGED <<mi, ii>>
        \/ /\ ~(item.type = "File" /\ TruthyStr(item.url))
           /\ LET next == AfterItem(ii, mi, files_to_download) IN
                pc' = next.pc /\ mi' = next.mi /\ ii' = next.ii
           /\ UNCHANGED file_details_list
    /\ UNCHANGED <<course_files, files_to_download, modules, module_items,
                   fi, di, download_count, skipped_count, error_count,
                   items_result, course, discovered, downloads, fetchVars, helperVars>>

\* Lines 134-150: the fetched detail is inserted or skipped.
Detail ==
    /\ pc = "detail"
    /\ IF Truthy(file_details_list)
       THEN LET file_info == file_details_list.items[1] IN
            /\ files_to_download' = InsertB(files_to_download, file_info)
            /\ discovered' = IF Usable(file_info)
                             THEN Append(discovered, [path |-> "B", rec |-> file_info])
                             ELSE discovered
       ELSE UNCHANGED <<files_to_download, discovered>>
    /\ LET next == AfterItem(ii, mi, files_to_download') IN
         pc' = next.pc /\ mi' = next.mi /\ ii' = next.ii
    /\ UNCHANGED <<course_files, modules, module_items, file_details_list,
                   fi, di, download_count, skipped_count, error_count,
                   items_result, course, downloads, fetchVars, helperVars>>

\* A variant of Count that does not count a failed download.
CountNoError(what) ==
    /\ download_count' = download_count + (IF what = "downloaded" THEN 1 ELSE 0)
    /\ error_count' = error_count
    /\ skipped_count' = skipped_count + (IF what = "skipped" THEN 1 ELSE 0)

\* Lines 171-175: the counters after one entry.
Count(what) ==
    /\ download_count' = download_count + (IF what = "downloaded" THEN 1 ELSE 0)
    /\ error_count' = error_count + (IF what = "error" THEN 1 ELSE 0)
    /\ skipped_count' = skipped_count + (IF what = "skipped" THEN 1 ELSE 0)

\* Line 163: the loop runs while entries are left.
AfterDownload(k) == IF k < Len(files_to_download) THEN "download" ELSE "done"

\* Lines 163-175: one entry of the registry.
Download ==
    /\ pc = "download"
    /\ LET file_info == files_to_download[di + 1].val
           sanitized == sanitize_filename(file_info.filename)
       IN  \/ /\ Allowed(file_info.filename)
              /\ \E outcome \in Outcomes(course) :
                  /\ Count(IF download_file(outcome) THEN "downloaded" ELSE "error")
                  /\ downloads' = Append(downloads,
                        [key |-> files_to_download[di + 1].key, attempt |-> outcome,
                         url |-> file_info.url, path |-> sanitized])
           \/ /\ ~Allowed(file_info.filename)
              /\ Count("skipped")
              /\ downloads' = Append(downloads,
                    [key |-> files_to_download[di + 1].key, attempt |-> "none",
                     url |-> NoUrl, path |-> <<>>])
    /\ di' = di + 1
    /\ pc' = AfterDownload(di + 1)
    /\ UNCHANGED <<course_files, files_to_download, modules, module_items,
                   file_details_list, fi, mi, ii, items_result, course,
                   discovered, fetchVars, helperVars>>

FetchIdle ==
    /\ fpc = "idle"
    /\ url = NoUrl
    /\ params = NoParams
    /\ next_url = NoUrl
    /\ all_results = <<>>
    /\ result = None
    /\ requests = <<>>
    /\ responses = <<>>

\* Lines 97 and 155-157: the start of the __main__ block.
Start ==
    /\ pc = "fetch_files"
    /\ course_files = Unset
    /\ files_to_download = <<>>
    /\ modules = Unset
    /\ module_items = <<>>
    /\ file_details_list = Unset
    /\ fi = 0 /\ mi = 0 /\ ii = 0 /\ di = 0
    /\ download_count = 0 /\ skipped_count = 0 /\ error_count = 0
    /\ items_result = Unset
    /\ discovered = <<>>
    /\ downloads = <<>>
    /\ FetchIdle
    /\ DownloadIdle
    /\ SanitizeIdle

Init == course \in Courses /\ Start

Next == FetchFiles \/ PathA \/ FetchModules \/ Module \/ Item \/ Detail \/ Download

Spec == Init /\ [][Next]_vars

(***************************************************************************)
(* The __main__ block on one course whose server never fails (SpecE2E):    *)
(* two listed files, a.pdf of id 1 and b.exe of id 2, and one module with  *)
(* a file item that resolves to c.docx of id 3 and a file item that        *)
(* resolves to id 1 again.  The order of the listing and of the items,     *)
(* whether the items are inlined, and whether the second lookup of id 1    *)
(* answers the listed record or a renamed one are left open.               *)
(***************************************************************************)
ScenarioFiles ==
    {<<FileDict(1, NamePdf, "f1"), FileDict(2, NameExe, "f2")>>,
     <<FileDict(2, NameExe, "f2"), FileDict(1, NamePdf, "f1")>>}

ScenarioItems ==
    UNION {{<<ItemDict("File", "d7"), ItemDict("File", dup)>>,
            <<ItemDict("File", dup), ItemDict("File", "d7")>>} : dup \in {"d1", "d3"}}

ScenarioCourses ==
    {[files |-> f, modules |-> <<[has_items |-> h, items |-> its]>>, faults |-> FALSE] :
        f \in ScenarioFiles, h \in BOOLEAN, its \in ScenarioItems}

InitE2E == course \in ScenarioCourses /\ Start

SpecE2E == InitE2E /\ [][Next]_vars

(***************************************************************************)
(* download_file step by step, lines 66-85 (SpecDownload).                 *)
(***************************************************************************)
MaxChunks == 2    \* chunks of a response body

\* The response bodies, as the chunks r.iter_content delivers.
ChunkValues == {"x", "y"}
ResponseBodies == SeqsUpTo(ChunkValues, MaxChunks)

\* The exceptions a step of the try block may raise: a RequestException of
\* the request or the stream, an OSError of the file system, or another
\* Exception.
StepFaults(step) ==
    CASE step = "get"              -> {"request_error", "other_error"}
      [] step = "raise_for_status" -> {"request_error"}
      [] step = "makedirs"         -> {"os_error"}
      [] step = "open"             -> {"os_error"}
      [] step = "iter"             -> {"request_error", "other_error"}
      [] step = "write"            -> {"os_error", "other_error"}

\* A variant of Caught without the handler of line 83.
CaughtNoGeneric(exc) == exc \in {"request_error", "os_error"}

\* Lines 79-84: the handlers of RequestException, OSError and Exception.
Caught(exc) == exc \in {"request_error", "os_error", "other_error"}

\* A step of the try block raises: control goes to the handlers.
Raise(step) ==
    /\ \E exc \in StepFaults(step) : df_exc' = exc
    /\ df_pc' = "except"
    /\ UNCHANGED <<df_body, df_read, df_opened, df_written, df_ret>>

\* A step of the try block passes: control goes to the step after it.
Pass(to) ==
    /\ df_pc' = to
    /\ UNCHANGED <<df_body, df_read, df_opened, df_written, df_exc, df_ret>>

\* Line 71: session.get(url, stream=True, allow_redirects=True)
DfGet ==
    /\ df_pc = "get"
    /\ Raise("get") \/ Pass("raise_for_status")
    /\ UNCHANGED <<fetchVars, mainVars, sanitizeVars>>

\* Line 72: r.raise_for_status()
DfRaiseForStatus ==
    /\ df_pc = "raise_for_status"
    /\ Raise("raise_for_status") \/ Pass("makedirs")
    /\ UNCHANGED <<fetchVars, mainVars, sanitizeVars>>

\* Line 73: os.makedirs(os.path.dirname(full_path), exist_ok=True)
DfMakedirs ==
    /\ df_pc = "makedirs"
    /\ Raise("makedirs") \/ Pass("open")
    /\ UNCHANGED <<fetchVars, mainVars, sanitizeVars>>

\* Line 74: open(full_path, 'wb') creates or truncates the file.
DfOpen ==
    /\ df_pc = "open"
    /\ \/ Raise("open")
       \/ /\ df_opened' = TRUE
          /\ df_pc' = "iter"
          /\ UNCHANGED <<df_body, df_read, df_written, df_exc, df_ret>>
    /\ UNCHANGED <<fetchVars, mainVars, sanitizeVars>>

\* Lines 75, 77-78: the next chunk of the stream; after the last chunk the
\* file and the response are closed and True is returned.
DfIter ==
    /\ df_pc = "iter"
    /\ IF df_read < Len(df_body)
       THEN \/ Raise("iter")
            \/ /\ df_read' = df_read + 1
               /\ df_pc' = "write"
               /\ UNCHANGED <<df_body, df_opened, df_written, df_exc, df_ret>>
       ELSE /\ df_ret' = download_file("ok")
            /\ df_pc' = "returned"
            /\ UNCHANGED <<df_body, df_read, df_opened, df_written, df_exc>>
    /\ UNCHANGED <<fetchVars, mainVars, sanitizeVars>>

\* Line 76: f.write(chunk)
DfWrite ==
    /\ df_pc = "write"
    /\ \/ Raise("write")
       \/ /\ df_written' = Append(df_written, df_body[df_read])
          /\ df_pc' = "iter"
          /\ UNCHANGED <<df_body, df_read, df_opened, df_exc, df_ret>>
    /\ UNCHANGED <<fetchVars, mainVars, sanitizeVars>>

\* Lines 79-85: a caught exception is reported and False is returned; an
\* exception no handler catches leaves the function.
DfExcept ==
    /\ df_pc = "except"
    /\ IF Caught(df_exc)
       THEN df_ret' = download_file(df_exc) /\ df_pc' = "returned"
       ELSE df_ret' = df_ret /\ df_pc' = "raised"
    /\ UNCHANGED <<df_body, df_read, df_opened, df_written, df_exc>>
    /\ UNCHANGED <<fetchVars, mainVars, sanitizeVars>>

InitDownload ==
    /\ df_pc = "get"
    /\ df_body \in ResponseBodies
    /\ df_read = 0
    /\ df_opened = FALSE
    /\ df_written = <<>>
    /\ df_exc = "none"
    /\ df_ret = FALSE
    /\ FetchIdle
    /\ MainIdle
    /\ SanitizeIdle

NextDownload ==
    DfGet \/ DfRaiseForStatus \/ DfMakedirs \/ DfOpen \/ DfIter \/ DfWrite \/ DfExcept

SpecDownload == InitDownload /\ [][NextDownload]_vars

(***************************************************************************)
(* Calls of sanitize_filename, lines 14-18 (SpecSanitize): one call on an  *)
(* argument, and one on its result.                                        *)
(***************************************************************************)
MaxNameLen == 3    \* characters of a file name

\* The characters of a file name: the ones the pattern removes, the space,
\* the underscore, a letter, a dot and a tab.
NameChars == Forbidden \cup {" ", "_", "a", ".", "\t"}
FileNames == SeqsUpTo(NameChars, MaxNameLen)

\* Line 14: sanitize_filename(filename)
SfCall ==
    /\ sf_pc = "call"
    /\ sf_sanitized' = sanitize_filename(sf_filename)
    /\ sf_pc' = "called"
    /\ UNCHANGED <<sf_filename, sf_again, fetchVars, mainVars, downloadVars>>

\* Line 14: sanitize_filename on the value it returned.
SfRecall ==
    /\ sf_pc = "called"
    /\ sf_again' = sanitize_filename(sf_sanitized)
    /\ sf_pc' = "recalled"
    /\ UNCHANGED <<sf_filename, sf_sanitized, fetchVars, mainVars, downloadVars>>

InitSanitize ==
    /\ sf_pc = "call"
    /\ sf_filename \in FileNames
    /\ sf_sanitized = <<>>
    /\ sf_again = <<>>
    /\ FetchIdle
    /\ MainIdle
    /\ DownloadIdle

NextSanitize == SfCall \/ SfRecall

SpecSanitize == InitSanitize /\ [][NextSanitize]_vars

(***************************************************************************)
(* Properties of make_api_request (SpecFetch).                             *)
(***************************************************************************)
\* The answers that are a successful response with a JSON list.
IsListPage(r) == r.status = "ok" /\ r.body.json = "list"
IsTransportFailure(r) == r.status # "ok"
IsUnparseable(r) == r.status = "ok" /\ r.body.json = "invalid"
IsNonList(r) == r.status = "ok" /\ r.body.json = "value"

\* The number of records on the list pages among the first k answers.
RECURSIVE RecordsBefore(_, _)
RecordsBefore(rs, k) ==
    IF k = 0 THEN 0
    ELSE RecordsBefore(rs, k - 1)
         + (IF IsListPage(rs[k]) THEN Len(rs[k].body.items) ELSE 0)

\* s holds exactly the records of the list pages rs[1..k], page by page and
\* in the order of each page.
HoldsPages(s, rs, k) ==
    /\ Len(s) = RecordsBefore(rs, k)
    /\ \A p \in 1..k : IsListPage(rs[p]) =>
          \A j \in 1..Len(rs[p].body.items) :
              s[RecordsBefore(rs, p - 1) + j] = rs[p].body.items[j]

Returned == fpc = "returned"

\* C1: when every request of a call was answered with a JSON list and the
\* call has returned (so the last page carried no next link), the result is
\* the concatenation of the pages: its length is the sum of the page sizes and
\* its elements are the pages' records in page order, then intra-page order.
C1_Concatenation ==
    (Returned /\ responses # <<>> /\ \A k \in 1..Len(responses) : IsListPage(responses[k]))
        => /\ result.tag = "list"
           /\ NextLink(responses[Len(responses)].links) = NoUrl
           /\ \A k \in 1..(Len(responses) - 1) : NextLink(responses[k].links) # NoUrl
           /\ HoldsPages(result.items, responses, Len(responses))

\* A call that returned the records of three linked list pages, two of them
\* with two records.
C1_Witness ==
    /\ Returned
    /\ Len(responses) = 3
    /\ \A k \in 1..3 : IsListPage(responses[k])
    /\ Len(responses[1].body.items) = 2
    /\ Len(responses[2].body.items) = 1
    /\ Len(responses[3].body.items) = 2
    /\ responses[1].body.items[1] # responses[1].body.items[2]
    /\ Len(result.items) = 5

\* C2: a request that ends in a transport failure is the last request of the
\* call, and the call has returned None: not the empty list, and none of the
\* records accumulated from earlier pages.
C2_TransportFailure ==
    \A k \in 1..Len(responses) : IsTransportFailure(responses[k]) =>
        /\ k = Len(responses)
        /\ Len(requests) = k
        /\ Returned
        /\ result = None
        /\ result # PyList(<<>>)
        /\ result # PyList(all_results)

\* A call that failed on its third request after accumulating records.
C2_Witness ==
    /\ Returned
    /\ Len(responses) = 3
    /\ IsTransportFailure(responses[3])
    /\ all_results # <<>>
    /\ result = None

\* C3: a successful response whose body is no JSON is the last request of the
\* call; the loop ends there and the call returns the records of the prior
\* pages, in order, not None.
C3_Unparseable ==
    \A k \in 1..Len(responses) : IsUnparseable(responses[k]) =>
        /\ k = Len(responses)
        /\ Len(requests) = k
        /\ next_url = NoUrl
        /\ HoldsPages(all_results, responses, k - 1)
        /\ Returned => result = PyList(all_results)

\* A call whose third page was no JSON and which returned the records of the
\* first two pages.
C3_Witness ==
    /\ Returned
    /\ Len(responses) = 3
    /\ IsUnparseable(responses[3])
    /\ NextLink(responses[3].links) # NoUrl
    /\ Len(result.items) >= 3

\* C6 as stated: a successful response with a JSON value that is no list is the
\* last request, whatever its Link header, and exactly that one value is
\* appended to the records of the prior pages, for every kind of value.
C6_SingleRecordAnyValue ==
    \A k \in 1..Len(responses) : IsNonList(responses[k]) =>
        /\ k = Len(responses)
        /\ Len(requests) = k
        /\ next_url = NoUrl
        /\ Len(all_results) = RecordsBefore(responses, k - 1) + 1
        /\ all_results[Len(all_results)] = responses[k].body.items[1]
        /\ Returned => result = PyList(all_results)

\* C6 amended: a successful response with a JSON value that is no list is the
\* last request, whatever its Link header; a JSON object is appended as one
\* record to the records of the prior pages, any other value (string, number,
\* boolean, null) is appended not at all; the call returns the records, not None.
C6_SingleRecordObjectOnly ==
    \A k \in 1..Len(responses) : IsNonList(responses[k]) =>
        LET v == responses[k].body.items[1] IN
        /\ k = Len(responses)
        /\ Len(requests) = k
        /\ next_url = NoUrl
        /\ IsDict(v) =>
              /\ Len(all_results) = RecordsBefore(responses, k - 1) + 1
              /\ all_results[Len(all_results)] = v
              /\ HoldsPages(SubSeq(all_results, 1, Len(all_results) - 1), responses, k - 1)
        /\ ~IsDict(v) => HoldsPages(all_results, responses, k - 1)
        /\ Returned => result = PyList(all_results)

\* A call whose second answer was a JSON object with a next link, and which
\* returned the first page's records followed by the object.
C6_Witness ==
    /\ Returned
    /\ Len(responses) = 2
    /\ IsNonList(responses[2])
    /\ IsDict(responses[2].body.items[1])
    /\ NextLink(responses[2].links) # NoUrl
    /\ Len(responses[1].body.items) = 2
    /\ Len(result.items) = 3

\* C7 as stated: the call returns the empty list only when every request was
\* answered with a JSON list and no page held a record.
C7_EmptyOnlyIfNoRecords ==
    (Returned /\ result = PyList(<<>>)) =>
        \A k \in 1..Len(responses) :
            IsListPage(responses[k]) /\ responses[k].body.items = <<>>

\* C7 amended: the call returns None exactly when a request ended in a transport
\* failure, so "could not fetch" is never the empty list; it returns the empty
\* list exactly when no request failed in transport and no answer contributed
\* a record: every list page was empty and no JSON object was answered, which
\* includes an answer that is no JSON or a value that is neither list nor object.
C7_EmptyVersusFailure ==
    Returned =>
        /\ result = None <=> \E k \in 1..Len(responses) : IsTransportFailure(responses[k])
        /\ result = PyList(<<>>) <=>
              \A k \in 1..Len(responses) :
                  /\ ~IsTransportFailure(responses[k])
                  /\ IsListPage(responses[k]) => responses[k].body.items = <<>>
                  /\ IsNonList(responses[k]) => ~IsDict(responses[k].body.items[1])

\* A call that returned the empty list although its second page was no JSON.
C7_Witness ==
    /\ Returned
    /\ result = PyList(<<>>)
    /\ Len(responses) = 2
    /\ IsUnparseable(responses[2])

(***************************************************************************)
(* Properties of the registry build and the download loop (Spec).          *)
(***************************************************************************)
\* The registry is built: the run is in the download loop or past it.
BuildDone == pc \in {"download", "done"}

\* The positions of `discovered` where path p saw the id i.
Seen(p, i) ==
    {k \in 1..Len(discovered) : discovered[k].path = p /\ discovered[k].rec.id = i}
DiscoveredIds == {discovered[k].rec.id : k \in 1..Len(discovered)}
Max(S) == CHOOSE x \in S : \A y \in S : y <= x
Min(S) == CHOOSE x \in S : \A y \in S : x <= y

\* C4: once the registry is built it has exactly one entry per distinct id
\* that was discovered with a download url, and for every id discovered by
\* both paths the retained record is a record of Path A (the record Path A
\* stored for that id), not the one of Path B.
C4_OneEntryPerId_PathAWins ==
    BuildDone =>
        /\ DictKeys(files_to_download) = DiscoveredIds
        /\ Len(files_to_download) = Cardinality(DiscoveredIds)
        /\ \A k \in 1..Len(files_to_download) :
              files_to_download[k].key = files_to_download[k].val.id
        /\ \A i \in DiscoveredIds : (Seen("A", i) # {} /\ Seen("B", i) # {}) =>
              DictGet(files_to_download, i) = FileEntry(discovered[Max(Seen("A", i))].rec)

\* A built registry with an id that both paths discovered, with different
\* records.
C4_Witness ==
    /\ BuildDone
    /\ \E i \in DiscoveredIds : \E a \in Seen("A", i) : \E b \in Seen("B", i) :
          /\ discovered[a].rec # discovered[b].rec
          /\ DictGet(files_to_download, i) = FileEntry(discovered[a].rec)

\* C5: first discovery wins: an entry of the registry is never changed by a
\* later step, whichever path it comes from.
C5_FirstDiscoveryWins ==
    [][\A k \in 1..Len(files_to_download) :
          /\ k <= Len(files_to_download')
          /\ files_to_download'[k] = files_to_download[k]]_vars

\* C8: the two paths are independent.  When the file listing fetch failed, the
\* modules fetch is the next step or was made, and once the registry is built
\* every file resolved by Path B is in it with the record of its first
\* discovery.  When the modules fetch failed, the run is in the download phase
\* with every file Path A stored, and at the end each was handled there.
C8_PathsIndependent ==
    /\ course_files = None =>
          /\ pc = "fetch_modules" \/ modules # Unset
          /\ BuildDone =>
                /\ DictKeys(files_to_download) = DiscoveredIds
                /\ \A i \in DiscoveredIds :
                      /\ Seen("B", i) # {}
                      /\ DictGet(files_to_download, i)
                            = FileEntry(discovered[Min(Seen("B", i))].rec)
    /\ modules = None =>
          /\ BuildDone
          /\ DictKeys(files_to_download) = DiscoveredIds
          /\ \A i \in DiscoveredIds :
                /\ Seen("A", i) # {}
                /\ DictGet(files_to_download, i)
                      = FileEntry(discovered[Max(Seen("A", i))].rec)
          /\ pc = "done" =>
                /\ Len(downloads) = Len(files_to_download)
                /\ \A k \in 1..Len(downloads) : downloads[k].key = files_to_download[k].key

\* The file listing fetch failed, and the registry was built from the modules.
C8_Witness ==
    /\ course_files = None
    /\ pc = "done"
    /\ Len(files_to_download) >= 1
    /\ download_count >= 1

\* The detail of the current item gave no usable record (lines 134, 137).
DetailUnusable ==
    ~(Truthy(file_details_list) /\ Usable(file_details_list.items[1]))

\* C9: a per-item failure is isolated.  A file detail that failed or gave no
\* usable record leaves the registry as it is and the traversal goes on with
\* the next item, or the next module after the last item; a failed items
\* fetch leaves the registry as it is and the traversal goes on with the next
\* module.  So when the registry is built every module was visited, and every
\* record that was resolved is in the registry.
C9_IsolatedFailures ==
    /\ [][/\ (pc = "detail" /\ DetailUnusable) =>
                /\ files_to_download' = files_to_download
                /\ ii < Len(module_items) => (pc' = "item" /\ ii' = ii + 1 /\ mi' = mi)
                /\ (ii = Len(module_items) /\ mi < Len(modules.items)) =>
                      (pc' = "module" /\ mi' = mi + 1)
                /\ (ii = Len(module_items) /\ mi = Len(modules.items)) => BuildDone'
          /\ (pc = "module" /\ items_result' = None) =>
                /\ files_to_download' = files_to_download
                /\ module_items' = <<>>
                /\ mi < Len(modules.items) => (pc' = "module" /\ mi' = mi + 1)
                /\ mi = Len(modules.items) => BuildDone']_vars
    /\ [](BuildDone /\ Truthy(modules) =>
            /\ mi = Len(modules.items) + 1
            /\ DiscoveredIds \subseteq DictKeys(files_to_download))

\* The first item of a module points to a usable file that is not in the
\* registry, so its detail fetch failed, and the second item was resolved and
\* stored.
C9_Witness ==
    /\ BuildDone
    /\ Len(module_items) = 2
    /\ \A j \in 1..2 : module_items[j].type = "File" /\ TruthyStr(module_items[j].url)
    /\ Usable(DetailOf(module_items[1].url))
    /\ ~DictHas(files_to_download, DetailOf(module_items[1].url).id)
    /\ Len(files_to_download) = 1
    /\ files_to_download[1].val = FileEntry(DetailOf(module_items[2].url))

\* The number of entries of the log d whose attempt is in S.
RECURSIVE CountIn(_, _)
CountIn(d, S) ==
    IF d = <<>> THEN 0
    ELSE (IF Head(d).attempt \in S THEN 1 ELSE 0) + CountIn(Tail(d), S)

\* C10: the download loop handles the entries of the registry one by one, in
\* order and each once: an entry whose extension is not allow-listed is
\* skipped without a download attempt, any other entry gets one attempt,
\* counted as downloaded when it succeeded and as an error when it failed; a
\* failure does not end the loop, and at the end every entry was handled and
\* downloaded + skipped + errors is the size of the registry.
C10_DownloadAccounting ==
    /\ Len(downloads) = di
    /\ di <= Len(files_to_download)
    /\ \A k \in 1..Len(downloads) :
          /\ downloads[k].key = files_to_download[k].key
          /\ downloads[k].attempt = "none" <=> ~Allowed(files_to_download[k].val.filename)
    /\ download_count = CountIn(downloads, {"ok"})
    /\ error_count = CountIn(downloads, DownloadOutcomes \ {"ok"})
    /\ skipped_count = CountIn(downloads, {"none"})
    /\ pc = "download" => di < Len(files_to_download)
    /\ pc = "done" =>
          /\ di = Len(files_to_download)
          /\ download_count + skipped_count + error_count = Len(files_to_download)

\* A finished run whose first download failed and whose second succeeded.
C10_Witness ==
    /\ pc = "done"
    /\ Len(files_to_download) = 2
    /\ downloads[1].attempt = "os_error"
    /\ downloads[2].attempt = "ok"
    /\ error_count = 1 /\ download_count = 1

\* The positions of the log of the download loop where the download succeeded.
Written == {k \in 1..Len(downloads) : downloads[k].attempt = "ok"}

\* C11: each downloaded resource gets its own output file: no two entries of
\* the registry whose download succeeded were written to the same path under
\* the output directory.
C11_OwnOutputFile ==
    \A j \in Written : \A k \in Written : j # k => downloads[j].path # downloads[k].path

(***************************************************************************)
(* Properties of a run on the scenario course (SpecE2E).                   *)
(***************************************************************************)
\* What the download loop did with the entry of id i: the attempts logged
\* for it.
AttemptsOf(i) == {downloads[k].attempt : k \in {k \in 1..Len(downloads) : downloads[k].key = i}}

\* C12: on the scenario course with every request succeeding, the finished run
\* has a registry of exactly the ids 1, 2 and 3, files 1 and 3 were
\* downloaded, file 2 was skipped, and the summary counts are downloaded = 2,
\* skipped = 1, errors = 0.
C12_EndToEnd ==
    pc = "done" =>
        /\ DictKeys(files_to_download) = {1, 2, 3}
        /\ Len(files_to_download) = 3
        /\ Len(downloads) = 3
        /\ AttemptsOf(1) = {"ok"}
        /\ AttemptsOf(3) = {"ok"}
        /\ AttemptsOf(2) = {"none"}
        /\ download_count = 2
        /\ skipped_count = 1
        /\ error_count = 0

\* A finished run on the scenario course during which the second reference to
\* id 1 was resolved.
C12_Witness ==
    /\ pc = "done"
    /\ course \in ScenarioCourses
    /\ Len(discovered) = 4
    /\ \E k \in 1..4 : discovered[k].path = "B" /\ discovered[k].rec.id = 1
    /\ download_count = 2

(***************************************************************************)
(* Properties of download_file (SpecDownload).                             *)
(***************************************************************************)
\* C13: download_file never raises to its caller: no exception of the
\* request, the directory creation, the file open or the chunked write
\* leaves the function; after any of them it returns False; and it returns
\* True only when no step raised, the file was opened and every chunk of the
\* body was written to it in order.
C13_NeverRaises ==
    /\ df_pc # "raised"
    /\ df_pc = "returned" =>
          /\ df_exc # "none" => df_ret = FALSE
          /\ df_ret = TRUE =>
                /\ df_exc = "none"
                /\ df_opened
                /\ df_written = df_body

\* A call that returned False after an unexpected error in the middle of the
\* writes.
C13_Witness ==
    /\ df_pc = "returned"
    /\ df_exc = "other_error"
    /\ df_ret = FALSE
    /\ Len(df_written) >= 1
    /\ Len(df_written) < Len(df_body)

(***************************************************************************)
(* Properties of sanitize_filename (SpecSanitize).                         *)
(***************************************************************************)
\* The positions of s whose character the pattern does not remove, and the
\* place of such a position among them.
KeptPositions(s) == {k \in 1..Len(s) : s[k] \notin Forbidden}
PlaceOf(s, k) == Cardinality({j \in KeptPositions(s) : j <= k})

\* C14: the value sanitize_filename returns contains none of the characters
\* \ / * ? : " < > | and no space, and it is the other characters of the
\* argument in their order, each space replaced by one underscore.
C14_SanitizedOutput ==
    sf_pc \in {"called", "recalled"} =>
        /\ \A k \in 1..Len(sf_sanitized) :
              sf_sanitized[k] \notin {"\\", "/", "*", "?", ":", "\"", "<", ">", "|", " "}
        /\ Len(sf_sanitized) = Cardinality(KeptPositions(sf_filename))
        /\ \A k \in KeptPositions(sf_filename) :
              sf_sanitized[PlaceOf(sf_filename, k)]
                  = (IF sf_filename[k] = " " THEN "_" ELSE sf_filename[k])

\* A name with two removed characters around a space and a kept character.
C14_Witness ==
    /\ sf_pc = "called"
    /\ sf_filename = <<"/", " ", "?">>
    /\ sf_sanitized = <<"_">>

\* C15: sanitize_filename is idempotent, and it returns an argument without
\* forbidden character and without space as it is.
C15_IdempotentNoOp ==
    /\ sf_pc = "recalled" => sf_again = sf_sanitized
    /\ (sf_pc \in {"called", "recalled"}
        /\ \A k \in 1..Len(sf_filename) : sf_filename[k] \notin Forbidden \cup {" "})
          => sf_sanitized = sf_filename

\* A second call on the result of a name that the first call changed.
C15_Witness ==
    /\ sf_pc = "recalled"
    /\ sf_filename = <<" ", " ", ":">>
    /\ sf_sanitized = <<"_", "_">>
    /\ sf_again = sf_sanitized

(***************************************************************************)
(* The pagination protocol of make_api_request (SpecFetchFair: SpecFetch   *)
(* with a call that keeps running while it can).                           *)
(***************************************************************************)
SpecFetchFair == SpecFetch /\ WF_vars(NextFetch)

\* The locators of the links of the answer r that are marked rel="next".
NextLocators(r) == {r.links[j].url : j \in {j \in 1..Len(r.links) : r.links[j].rel = "next"}}

\* The locators the server laid out so far: the start url and the next
\* locator of each answer.
Laid == {StartUrl} \cup UNION {NextLocators(responses[k]) : k \in 1..Len(responses)}

\* The answers so far are list pages whose next links form a chain without a
\* cycle: no page points to the start url, to itself or to a locator another
\* page points to.
AcyclicChain ==
    /\ \A k \in 1..Len(responses) :
          /\ IsListPage(responses[k])
          /\ StartUrl \notin NextLocators(responses[k])
    /\ \A j \in 1..Len(responses) : \A k \in 1..Len(responses) :
          j # k => NextLocators(responses[j]) \cap NextLocators(responses[k]) = {}

\* The protocol, step by step: the first request goes to the url of the call;
\* after a list page with a link marked next the following request goes to
\* the locator of that link and to no other; after a list page without such a
\* link no request follows.  On a chain without a cycle no locator is
\* requested twice and the returned call made one request per page.
FollowsNextOnly ==
    /\ Len(requests) >= 1 => requests[1][1] = StartUrl
    /\ \A k \in 1..Len(responses) : IsListPage(responses[k]) =>
          IF NextLocators(responses[k]) = {}
          THEN k = Len(requests) /\ ~TruthyStr(next_url)
          ELSE /\ k < Len(requests) => requests[k + 1][1] \in NextLocators(responses[k])
               /\ k = Len(requests) => next_url \in NextLocators(responses[k])
    /\ AcyclicChain =>
          /\ \A j \in 1..Len(requests) : \A k \in 1..Len(requests) :
                j # k => requests[j][1] # requests[k][1]
          /\ fpc = "returned" =>
                /\ Len(requests) = Cardinality(Laid)
                /\ NextLocators(responses[Len(responses)]) = {}
                /\ result = PyList(all_results)

\* C16: make_api_request follows the pagination protocol step by step, and
\* whenever the next links of the server form a finite chain without a cycle
\* the call terminates, after exactly one request per page of the chain and
\* without requesting a locator twice.
C16_PaginationProtocol ==
    /\ []FollowsNextOnly
    /\ <>(fpc = "returned" \/ ~AcyclicChain)

\* A returned call that followed a chain of three pages, the second of which
\* also carried a link that is not marked next.
C16_Witness ==
    /\ fpc = "returned"
    /\ AcyclicChain
    /\ Len(requests) = 3
    /\ requests[2][1] = "u1" /\ requests[3][1] = "u2"
    /\ responses[2].links = <<Link("prev", "u1"), Link("next", "u2")>>

(***************************************************************************)
(* Further properties of the registry build (Spec).                        *)
(***************************************************************************)
\* C17: for each module of the modules fetch the secondary items request is
\* made exactly when the module record has no inlined items field; inlined
\* items, an inlined empty list included, are taken as the items of the
\* module and no secondary request is made.
C17_SecondaryIffNotInlined ==
    [][pc = "module" =>
          /\ items_result' # Unset <=> ~modules.items[mi].has_items
          /\ modules.items[mi].has_items => module_items' = modules.items[mi].items]_vars

(***************************************************************************)
(* The query parameters of make_api_request (SpecFetch).                   *)
(***************************************************************************)
\* C18: the caller's query parameters go with the first request of a call
\* only: the first request carries them to the url of the call, every later
\* request goes to the locator of the next link of the answer before it, as
\* it is, without parameters.
C18_ParamsFirstRequestOnly ==
    /\ [][(requests = <<>> /\ requests' # <<>>) => requests' = <<<<url, params>>>>]_vars
    /\ [](\A k \in 2..Len(requests) :
            /\ requests[k][2] = NoParams
            /\ requests[k][1] \in NextLocators(responses[k - 1]))

\* A call with parameters that went on to a second and a third page.
C18_Witness ==
    /\ Len(requests) = 3
    /\ requests[1] = <<StartUrl, "per_page=100">>
    /\ requests[2] = <<"u1", NoParams>>
    /\ requests[3] = <<"u2", NoParams>>

\* C19: in every state of the registry build each entry of files_to_download
\* is keyed by the id of its own record and has a non-empty download url; a
\* record without a download url, of the listing or of a file detail, is not
\* in the registry.
C19_KeyedByIdWithUrl ==
    /\ \A k \in 1..Len(files_to_download) :
          /\ files_to_download[k].key = files_to_download[k].val.id
          /\ files_to_download[k].val.url # NoUrl
          /\ \E j \in 1..Len(discovered) :
                /\ HasUrl(discovered[j].rec)
                /\ files_to_download[k].val = FileEntry(discovered[j].rec)
    /\ \A j \in 1..Len(files_to_download) : \A k \in 1..Len(files_to_download) :
          files_to_download[j].key = files_to_download[k].key => j = k

\* The listing held a folder of id 2 and a file of id 1, and the built
\* registry holds the file only.
C19_Witness ==
    /\ BuildDone
    /\ Truthy(course_files)
    /\ \E k \in 1..Len(course_files.items) :
          course_files.items[k] = FileDict(2, NameDir, NoUrl)
    /\ DictKeys(files_to_download) = {1}

====
